---- MODULE Spec2Model ----
(***************************************************************************)
(* A model of the ASTAR blockfile plugin, hyperspy/io_plugins/blockfile.py: *)
(* the header record layout, the serial-date conversions, file_writer and  *)
(* file_reader.  A file is the sequence of its bytes.  Floating-point      *)
(* values are exact rationals [num, den] in lowest terms (den > 0); the    *)
(* 'f8' fields are laid out through the IEEE-754 table F8Table.            *)
(***************************************************************************)
EXTENDS Integers, Sequences, FiniteSets, TLC

VARIABLES pc, signal, kwds, file, wres, rkwds, rres, dt, serial, back,
          twin, tres

vars == <<pc, signal, kwds, file, wres, rkwds, rres, dt, serial, back,
          twin, tres>>

(***************************************************************************)
(* Bounds of the model.                                                    *)
(***************************************************************************)
\* largest side of the small navigation grids (NX, NY in 1..MaxNav)
MaxNav == 2
\* largest side of the diffraction patterns (H, W in 1..MaxDP)
MaxDP == 2
\* largest note length of a prior header
MaxNote == 3
\* largest gap between the header record and Data_offset_1 of a prior header
MaxGap == 2
\* serial dates range over -MaxDays .. MaxDays days around the origin
MaxDays == 2

(***************************************************************************)
(* Helpers.                                                                *)
(***************************************************************************)
Min(a, b) == IF a < b THEN a ELSE b
Max(a, b) == IF a > b THEN a ELSE b
Abs(a) == IF a < 0 THEN -a ELSE a

Reverse(s) == [i \in 1..Len(s) |-> s[Len(s) + 1 - i]]

Zeros(n) == [i \in 1..n |-> 0]

RECURSIVE Gcd(_, _)
Gcd(a, b) == IF b = 0 THEN a ELSE Gcd(b, a % b)

\* the rational n/d (d > 0) in lowest terms
Rat(n, d) == [num |-> n \div Gcd(Abs(n), d), den |-> d \div Gcd(Abs(n), d)]

\* Python's s[:stop]
PySliceTo(s, stop) ==
    IF stop < 0 THEN SubSeq(s, 1, Max(0, Len(s) + stop))
    ELSE SubSeq(s, 1, Min(stop, Len(s)))

\* numpy's wrap of an integer into an unsigned field of w bits
U16 == 2^16
WrapU16(v) == v % U16

(***************************************************************************)
(* The 'f8' layout: IEEE-754 double, most significant byte first.          *)
(***************************************************************************)
F8Table ==
    { <<Rat(0, 1), <<0, 0, 0, 0, 0, 0, 0, 0>>>>,
      <<Rat(1, 2), <<63, 224, 0, 0, 0, 0, 0, 0>>>>,
      <<Rat(1, 1), <<63, 240, 0, 0, 0, 0, 0, 0>>>>,
      <<Rat(3, 2), <<63, 248, 0, 0, 0, 0, 0, 0>>>>,
      <<Rat(2, 1), <<64, 0, 0, 0, 0, 0, 0, 0>>>>,
      <<Rat(5, 2), <<64, 4, 0, 0, 0, 0, 0, 0>>>>,
      <<Rat(3, 1), <<64, 8, 0, 0, 0, 0, 0, 0>>>>,
      <<Rat(7, 2), <<64, 12, 0, 0, 0, 0, 0, 0>>>> }

F8Bytes(x) ==
    IF "bits" \in DOMAIN x THEN x.bits ELSE (CHOOSE e \in F8Table : e[1] = x)[2]

\* a bit pattern outside the table stays a raw pattern
F8Value(b) ==
    IF \E e \in F8Table : e[2] = b
    THEN (CHOOSE e \in F8Table : e[2] = b)[1]
    ELSE [bits |-> b]

(***************************************************************************)
(* get_header_dtype_list: the fields in order, with their type and byte    *)
(* order.  The first sixteen carry the requested order; the Centering and  *)
(* Distortion fields are declared 'f8' and take the machine's order.       *)
(***************************************************************************)
NativeOrder == "<"

CalibrationNames ==
    << "Centering_N0", "Centering_N1", "Centering_N2", "Centering_N3",
       "Centering_N4", "Centering_N5", "Centering_N6", "Centering_N7",
       "Distortion_N00", "Distortion_N01", "Distortion_N02", "Distortion_N03",
       "Distortion_N04", "Distortion_N05", "Distortion_N06", "Distortion_N07",
       "Distortion_N08", "Distortion_N09", "Distortion_N10", "Distortion_N11",
       "Distortion_N12", "Distortion_N13" >>

get_header_dtype_list(endianess) ==
    << [name |-> "ID", type |-> "S6", order |-> "|"],
       [name |-> "MAGIC", type |-> "u2", order |-> endianess],
       [name |-> "Data_offset_1", type |-> "u4", order |-> endianess],
       [name |-> "Data_offset_2", type |-> "u4", order |-> endianess],
       [name |-> "UNKNOWN1", type |-> "u4", order |-> endianess],
       [name |-> "DP_SZ", type |-> "u2", order |-> endianess],
       [name |-> "DP_rotation", type |-> "u2", order |-> endianess],
       [name |-> "NX", type |-> "u2", order |-> endianess],
       [name |-> "NY", type |-> "u2", order |-> endianess],
       [name |-> "Scan_rotation", type |-> "u2", order |-> endianess],
       [name |-> "SX", type |-> "f8", order |-> endianess],
       [name |-> "SY", type |-> "f8", order |-> endianess],
       [name |-> "Beam_energy", type |-> "u4", order |-> endianess],
       [name |-> "SDP", type |-> "u2", order |-> endianess],
       [name |-> "Camera_length", type |-> "u4", order |-> endianess],
       [name |-> "Aquisiton_time", type |-> "f8", order |-> endianess] >>
    \o [i \in 1..Len(CalibrationNames) |->
          [name |-> CalibrationNames[i], type |-> "f8", order |-> NativeOrder]]

\* the two lists, the names of the fields, and the place of each in the list
HeaderDtype == [e \in {"<", ">"} |-> get_header_dtype_list(e)]

FieldNames == {HeaderDtype["<"][i].name : i \in 1..Len(HeaderDtype["<"])}

FieldIndex ==
    [n \in FieldNames |->
        CHOOSE k \in 1..Len(HeaderDtype["<"]) : HeaderDtype["<"][k].name = n]

ItemSize(type) ==
    CASE type = "S6" -> 6
      [] type = "u2" -> 2
      [] type = "u4" -> 4
      [] type = "f8" -> 8

RECURSIVE RecordSize(_, _)
RecordSize(dtype, i) ==
    IF i > Len(dtype) THEN 0 ELSE ItemSize(dtype[i].type) + RecordSize(dtype, i + 1)

\* the size of one header record (numpy's dtype.itemsize)
HeaderSize == RecordSize(HeaderDtype["<"], 1)

\* the zero of a field (np.zeros)
ZeroOf(type) ==
    CASE type = "S6" -> <<>>
      [] type = "f8" -> Rat(0, 1)
      [] OTHER -> 0

\* the value a field holds after an assignment of v (numpy's cast)
CastTo(type, v) ==
    CASE type = "S6" -> SubSeq(v, 1, Min(6, Len(v)))
      [] type = "u2" -> WrapU16(v)
      [] OTHER -> v

\* the bytes of an unsigned integer of n bytes, least significant first
RECURSIVE UIntBytes(_, _)
UIntBytes(v, n) ==
    IF n = 0 THEN <<>> ELSE <<v % 256>> \o UIntBytes(v \div 256, n - 1)

\* An unsigned 32-bit value of 2^31 or more is held as v - 2^32, the signed
\* integer of the same four bytes; IsLarge tells the two apart.
RECURSIVE UIntValue(_)
UIntValue(b) ==
    IF b = <<>> THEN 0
    ELSE IF Len(b) = 1 THEN b[1]
    ELSE IF Len(b) = 4 /\ b[4] >= 128
         THEN UIntValue(SubSeq(b, 1, 3)) + 2^24 * (b[4] - 256)
    ELSE b[1] + 256 * UIntValue(Tail(b))

IsLarge(v) == v < 0

\* trailing NUL bytes of an 'S6' item are not part of its value
RECURSIVE StripNul(_)
StripNul(b) ==
    IF b # <<>> /\ b[Len(b)] = 0 THEN StripNul(SubSeq(b, 1, Len(b) - 1)) ELSE b

ItemBytes(type, order, v) ==
    CASE type = "S6" -> v \o Zeros(6 - Len(v))
      [] type = "f8" -> IF order = ">" THEN F8Bytes(v) ELSE Reverse(F8Bytes(v))
      [] OTHER -> IF order = ">" THEN Reverse(UIntBytes(v, ItemSize(type)))
                  ELSE UIntBytes(v, ItemSize(type))

ItemValue(type, order, b) ==
    CASE type = "S6" -> StripNul(b)
      [] type = "f8" -> IF order = ">" THEN F8Value(b) ELSE F8Value(Reverse(b))
      [] OTHER -> IF order = ">" THEN UIntValue(Reverse(b)) ELSE UIntValue(b)

\* header.tofile: the record laid out field after field
RECURSIVE RecordBytes(_, _, _)
RecordBytes(header, dtype, i) ==
    IF i > Len(dtype) THEN <<>>
    ELSE ItemBytes(dtype[i].type, dtype[i].order, header[dtype[i].name])
         \o RecordBytes(header, dtype, i + 1)

\* the offset of field i in the record
RECURSIVE FieldOffset(_, _)
FieldOffset(dtype, i) ==
    IF i = 1 THEN 0 ELSE FieldOffset(dtype, i - 1) + ItemSize(dtype[i - 1].type)

FieldOffsets ==
    [i \in 1..Len(HeaderDtype["<"]) |-> FieldOffset(HeaderDtype["<"], i)]

\* np.fromfile(f, dtype, count=1) followed by sarray2dict
RecordValue(bytes, dtype) ==
    [n \in FieldNames |->
        ItemValue(dtype[FieldIndex[n]].type, dtype[FieldIndex[n]].order,
                  SubSeq(bytes, FieldOffsets[FieldIndex[n]] + 1,
                         FieldOffsets[FieldIndex[n]]
                           + ItemSize(dtype[FieldIndex[n]].type)))]

\* dict2sarray: the fields of the record that the dictionary names are assigned
dict2sarray(dictionary, sarray, dtype) ==
    [n \in FieldNames |->
        IF n \in DOMAIN dictionary
        THEN CastTo(dtype[FieldIndex[n]].type, dictionary[n])
        ELSE sarray[n]]

ZeroRecord(dtype) == [n \in FieldNames |-> ZeroOf(dtype[FieldIndex[n]].type)]

(***************************************************************************)
(* Serial dates.  A datetime is its distance from the origin, 1899-12-30   *)
(* 00:00 UTC, normalised as Python's timedelta is: days, 0 <= seconds <    *)
(* 86400, 0 <= microseconds < 10^6; aware tells whether it carries a time  *)
(* zone.  A serial date is the exact quotient; the rounding of the double  *)
(* stays below the microsecond timedelta rounds to.                        *)
(***************************************************************************)
SecondsPerDay == 24 * 60 * 60

\* _to_serial_date: dt - origin raises TypeError for a naive dt
_to_serial_date(d) ==
    IF ~d.aware THEN [error |-> "TypeError", value |-> Rat(0, 1)]
    ELSE [error |-> "none",
          value |-> Rat(d.days * SecondsPerDay + d.seconds, SecondsPerDay)]

\* Python's int(x): truncation towards zero
PyInt(x) == IF x.num >= 0 THEN x.num \div x.den ELSE -((-x.num) \div x.den)

\* round(n / d) to the nearest integer, ties to even (n >= 0)
RoundHalfEven(n, d) ==
    LET q == n \div d
        r == n % d
    IN  IF 2 * r > d \/ (2 * r = d /\ q % 2 = 1) THEN q + 1 ELSE q

\* _from_serial_date: timedelta(int(serial), secs, secs/1000) added to the
\* origin; the third positional argument of timedelta is microseconds
_from_serial_date(s) ==
    LET secs == (s.num % s.den) * (SecondsPerDay \div s.den)
    IN  [aware |-> TRUE,
         days |-> PyInt(s),
         seconds |-> secs,
         microseconds |-> RoundHalfEven(secs, 1000)]

(***************************************************************************)
(* The signal handed to the writer.  navigation_shape is (NX, NY),         *)
(* signal_shape is (W, H); the data array has shape [NY, NX, H, W] and     *)
(* holds unsigned 8-bit values, given here by a pattern.                   *)
(***************************************************************************)
Pixel(sig, r, c, i, j) ==
    LET NX == sig.navigation_shape[1]
        W == sig.signal_shape[1]
        H == sig.signal_shape[2]
        ramp == ((((r * NX + c) * H + i) * W + j) * 7 + 1) % 256
    IN  IF sig.data = "ramp" THEN ramp ELSE 255 - ramp

\* the k-th image (from 0) of signal._iterate_signal(), flattened in C order
FrameBytes(sig, k) ==
    LET NX == sig.navigation_shape[1]
        W == sig.signal_shape[1]
        H == sig.signal_shape[2]
    IN  [p \in 1..(H * W) |->
            Pixel(sig, k \div NX, k % NX, (p - 1) \div W, (p - 1) % W)]

RECURSIVE SumSeq(_, _)
SumSeq(s, i) == IF i > Len(s) THEN 0 ELSE s[i] + SumSeq(s, i + 1)

\* signal.mean(2j).mean(2j).data.astype('u1'): the mean of each pattern,
\* truncated, laid out [NY, NX]
VirtualBrightField(sig) ==
    LET n == sig.navigation_shape[1] * sig.navigation_shape[2]
        sz == sig.signal_shape[1] * sig.signal_shape[2]
    IN  [k \in 1..n |-> SumSeq(FrameBytes(sig, k - 1), 1) \div sz]

(***************************************************************************)
(* get_default_header                                                      *)
(***************************************************************************)
IMGBLO == <<73, 77, 71, 66, 76, 79>>

\* datetime.utcnow() carries no time zone
utcnow == [aware |-> FALSE, days |-> 1, seconds |-> 0, microseconds |-> 0]

DefaultHeaderAt(header, dtype, t) ==
    IF t.error # "none"
    THEN [error |-> t.error, header |-> header, dtype |-> dtype, note |-> <<>>]
    ELSE [error |-> "none",
          header |-> [header EXCEPT !["Aquisiton_time"] = t.value],
          dtype |-> dtype, note |-> <<>>]

\* the record is built with get_header_dtype_list(), whatever endianess is
get_default_header(endianess) ==
    DefaultHeaderAt(dict2sarray([ID |-> IMGBLO, MAGIC |-> 258,
                                 Data_offset_1 |-> 4096, UNKNOWN1 |-> 131141],
                                ZeroRecord(HeaderDtype["<"]),
                                HeaderDtype["<"]),
                    HeaderDtype["<"],
                    _to_serial_date(utcnow))

(***************************************************************************)
(* get_header_from_signal                                                  *)
(***************************************************************************)
NonSquareFrame == "ValueError: Blockfiles require signal shape to be square!"
FrameCountExceeded == "ValueError: Unexpected navigation size."
NegativeDimensions == "ValueError: negative dimensions are not allowed"

\* variants of DataOffset2: the offset rounded up, or down, to a multiple of 16
DataOffset2RoundedUp(NX, NY, offset1) ==
    LET offset2 == NX * NY + offset1
    IN  offset2 + ((16 - (offset2 % 16)) % 16)

DataOffset2RoundedDown(NX, NY, offset1) ==
    LET offset2 == NX * NY + offset1
    IN  offset2 - (offset2 % 16)

\* a variant of DataOffset2: nothing is added to NX*NY + Data_offset_1
DataOffset2Unaligned(NX, NY, offset1) == NX * NY + offset1

\* offset2 = NX*NY + Data_offset_1; offset2 += offset2 % 16
DataOffset2(NX, NY, offset1) ==
    LET offset2 == NX * NY + offset1
    IN  offset2 + (offset2 % 16)

\* SY = signal.axes_manager.navigation_axes[0].scale
ScanStepY(sig) == sig.navigation_scale[1]

\* a variant of HeaderUsed: the prior header loses its vendor flag field
HeaderUsedDefaultFlags(sig, endianess) ==
    IF "blockfile_header" \in DOMAIN sig.original_metadata
    THEN [error |-> "none",
          header |-> dict2sarray([sig.original_metadata.blockfile_header
                                    EXCEPT !["UNKNOWN1"] = 131141],
                                 ZeroRecord(HeaderDtype[endianess]),
                                 HeaderDtype[endianess]),
          dtype |-> HeaderDtype[endianess],
          note |-> sig.original_metadata.blockfile_header.Note]
    ELSE get_default_header(endianess)

\* the header the writer starts from: the prior one, or the default one
HeaderUsed(sig, endianess) ==
    IF "blockfile_header" \in DOMAIN sig.original_metadata
    THEN [error |-> "none",
          header |-> dict2sarray(sig.original_metadata.blockfile_header,
                                 ZeroRecord(HeaderDtype[endianess]),
                                 HeaderDtype[endianess]),
          dtype |-> HeaderDtype[endianess],
          note |-> sig.original_metadata.blockfile_header.Note]
    ELSE get_default_header(endianess)

HeaderFromUsed(sig, used) ==
    LET NX == sig.navigation_shape[1]
        NY == sig.navigation_shape[2]
        SX == sig.navigation_scale[1]
        DP_SZ == sig.signal_shape
        SDP == PyInt(Rat(100 * sig.signal_scale.den, sig.signal_scale.num))
    IN  IF used.error # "none" THEN used
        ELSE IF DP_SZ[1] # DP_SZ[2] THEN [used EXCEPT !.error = NonSquareFrame]
        ELSE [used EXCEPT !.header =
                dict2sarray([NX |-> NX, NY |-> NY, DP_SZ |-> DP_SZ[1],
                             SX |-> SX, SY |-> ScanStepY(sig), SDP |-> SDP,
                             Data_offset_2 |->
                                DataOffset2(NX, NY, used.header.Data_offset_1)],
                            used.header, used.dtype)]

get_header_from_signal(sig, endianess) ==
    HeaderFromUsed(sig, HeaderUsed(sig, endianess))

(***************************************************************************)
(* file_writer                                                             *)
(***************************************************************************)
Endianess(kw) == IF "endianess" \in DOMAIN kw THEN kw.endianess ELSE "<"

\* the 6-byte record dp_head: MAGIC 0x55AA and the serial ID
FrameMarker(endianess, id) ==
    ItemBytes("u2", endianess, 21930) \o ItemBytes("u4", endianess, id)

\* the serial written in front of the k-th frame (k from 1): dp_head['ID']
\* starts at 0 and is incremented after the frame is written
FrameSerial(k) == k - 1

\* header['NX'] * header['NY'], a product of two unsigned 16-bit arrays
MulU16(a, b) == ((a % 256) * b + (((a \div 256) * b) % 256) * 256) % U16

\* the guard of the loop, after the k-th frame: dp_head['ID'] > NX * NY
FrameGuard(k, header) == k > MulU16(header.NX, header.NY)

\* the number of frames the loop writes before it ends or raises
FramesWritten(sig, header) ==
    LET n == sig.navigation_shape[1] * sig.navigation_shape[2]
    IN  IF \E k \in 1..n : FrameGuard(k, header)
        THEN CHOOSE k \in 1..n :
               FrameGuard(k, header) /\ \A j \in 1..(k - 1) : ~FrameGuard(j, header)
        ELSE n

\* the first m frames as written: each its marker, then its bytes
FrameStack(sig, endianess, m) ==
    LET W == sig.signal_shape[1]
        size == 6 + sig.signal_shape[1] * sig.signal_shape[2]
    IN  [p \in 1..(m * size) |->
            LET k == (p - 1) \div size
                o == (p - 1) % size
            IN  IF o < 6 THEN FrameMarker(endianess, FrameSerial(k + 1))[o + 1]
                ELSE FrameBytes(sig, k)[o - 5]]

\* a variant of NoteWritten: the note is written whole
NoteWrittenWhole(note, offset1, tell) == note

\* the note that fits in front of Data_offset_1
NoteWritten(note, offset1, tell) ==
    IF Len(note) > offset1 - tell
    THEN PySliceTo(note, offset1 - tell - Len(note))
    ELSE note

\* what a write leaves: the error raised, whether the destination was
\* opened, the header and note it wrote, the frames written, the file
WriteResult(error, opened, h, note, frames, f) ==
    [error |-> error, opened |-> opened, header |-> h.header, note |-> note,
     frames |-> frames, file |-> f]

\* a variant of WriteFrames: the guard ends the loop without raising
WriteFramesSilent(sig, endianess, h, note, f, m) ==
    WriteResult("none", TRUE, h, note, m, f \o FrameStack(sig, endianess, m))

\* the loop over signal._iterate_signal()
WriteFrames(sig, endianess, h, note, f, m) ==
    WriteResult(IF m >= 1 /\ FrameGuard(m, h.header)
                THEN FrameCountExceeded ELSE "none",
                TRUE, h, note, m, f \o FrameStack(sig, endianess, m))

\* a variant of PadToOffset2: the frames follow the bright field at once
PadToOffset2Unpadded(sig, endianess, h, note, f) ==
    WriteFrames(sig, endianess, h, note, f, FramesWritten(sig, h.header))

\* zero pad until Data_offset_2
PadToOffset2(sig, endianess, h, note, f) ==
    IF h.header.Data_offset_2 - Len(f) < 0
    THEN WriteResult(NegativeDimensions, TRUE, h, note, 0, f)
    ELSE WriteFrames(sig, endianess, h, note,
                     f \o Zeros(h.header.Data_offset_2 - Len(f)),
                     FramesWritten(sig, h.header))

\* zero pad until Data_offset_1, then the virtual bright field
PadToOffset1(sig, endianess, h, note, f) ==
    IF h.header.Data_offset_1 - Len(f) < 0
    THEN WriteResult(NegativeDimensions, TRUE, h, note, 0, f)
    ELSE PadToOffset2(sig, endianess, h, note,
                      f \o Zeros(h.header.Data_offset_1 - Len(f))
                        \o VirtualBrightField(sig))

WriteNote(sig, endianess, h, note, f) ==
    PadToOffset1(sig, endianess, h, note, f \o note)

\* header.tofile(f), then the note cut to the room left
WriteHeader(sig, endianess, h, f) ==
    WriteNote(sig, endianess, h,
              NoteWritten(h.note, h.header.Data_offset_1, Len(f)), f)

WriteWith(old, sig, endianess, h) ==
    IF h.error # "none"
    THEN WriteResult(h.error, FALSE, h, <<>>, 0, old)
    ELSE WriteHeader(sig, endianess, h, RecordBytes(h.header, h.dtype, 1))

file_writer(old, sig, kw) ==
    WriteWith(old, sig, Endianess(kw), get_header_from_signal(sig, Endianess(kw)))

(***************************************************************************)
(* file_reader                                                             *)
(***************************************************************************)
Undefined == [undefined |-> TRUE]
MmapTooLong == "ValueError: mmap length is greater than file size"
ReshapeError == "ValueError: cannot reshape array"
ShortHeader == "TypeError: an integer is required"

\* Python's s[i] for -Len(s) <= i < Len(s)
PyIndex(s, i) == IF i < 0 THEN s[Len(s) + i + 1] ELSE s[i + 1]

\* NY * NX * size <= avail, without leaving the integers of the model
Fits(NY, NX, size, avail) ==
    /\ avail >= 0
    /\ NY > 0 /\ NX > 0
    /\ NX <= avail \div NY
    /\ size <= avail \div (NY * NX)

\* f.read(n): to the end of the file when n is negative
FileRead(bytes, tell, n) ==
    IF n < 0 THEN SubSeq(bytes, tell + 1, Len(bytes))
    ELSE SubSeq(bytes, tell + 1, Min(Len(bytes), tell + n))

\* a variant of Axes: names, scales and units taken in their listed order
AxesAsListed(shape, scales) ==
    LET units == <<"nm", "cm", "cm", "nm">>
        names == <<"x", "dy", "dx", "y">>
    IN  [k \in 1..4 |->
            [size |-> shape[k],
             index_in_array |-> k - 1,
             name |-> names[k],
             scale |-> scales[k],
             offset |-> Rat(0, 1),
             units |-> units[k]]]

Axes(shape, scales) ==
    LET units == <<"nm", "cm", "cm", "nm">>
        names == <<"x", "dy", "dx", "y">>
        dim == 4
    IN  [k \in 1..dim |->
            LET i == k - 1
            IN  [size |-> shape[k],
                 index_in_array |-> i,
                 name |-> PyIndex(names, i + 3 - dim),
                 scale |-> PyIndex(scales, i + 3 - dim),
                 offset |-> Rat(0, 1),
                 units |-> PyIndex(units, i + 3 - dim)]]

WithNote(header, note) ==
    [n \in FieldNames \cup {"Note"} |-> IF n = "Note" THEN note ELSE header[n]]

ReadFailure(error) ==
    [error |-> error, data |-> <<>>, shape |-> <<>>, axes |-> <<>>,
     header |-> WithNote(ZeroRecord(HeaderDtype["<"]), <<>>)]

\* the note: f.read(header['Data_offset_1'] - f.tell())
NoteRead(bytes, header) ==
    IF IsLarge(header.Data_offset_1) THEN FileRead(bytes, HeaderSize, -1)
    ELSE FileRead(bytes, HeaderSize, header.Data_offset_1 - HeaderSize)

\* a variant of ReciprocalScale: an absent SDP gives the number 0
ReciprocalScaleZero(header) ==
    IF header.SDP # 0 THEN Rat(100, header.SDP) ELSE Rat(0, 1)

\* the scale of the reciprocal axes
ReciprocalScale(header) ==
    IF header.SDP # 0 THEN Rat(100, header.SDP) ELSE Undefined

\* DP_SZ*DP_SZ + 6, the product of two unsigned 16-bit scalars
FrameSize(header) == MulU16(header.DP_SZ, header.DP_SZ) + 6

\* a variant of ReadData: the six bytes in front of each frame are kept
ReadDataWithMarkers(bytes, header) ==
    LET sq == header.DP_SZ * header.DP_SZ
    IN  [p \in 1..(header.NY * header.NX * sq) |->
            bytes[header.Data_offset_2 + ((p - 1) \div sq) * FrameSize(header)
                  + ((p - 1) % sq) + 1]]

\* the memmap at Data_offset_2, without the markers, reshaped
ReadData(bytes, header) ==
    LET sq == header.DP_SZ * header.DP_SZ
    IN  [p \in 1..(header.NY * header.NX * sq) |->
            bytes[header.Data_offset_2 + ((p - 1) \div sq) * FrameSize(header) + 6
                  + ((p - 1) % sq) + 1]]

ReadWith(bytes, header) ==
    IF \/ IsLarge(header.Data_offset_2)
       \/ ~Fits(header.NY, header.NX, FrameSize(header),
                Len(bytes) - header.Data_offset_2)
    THEN ReadFailure(MmapTooLong)
    ELSE IF header.DP_SZ >= 256
    THEN ReadFailure(ReshapeError)
    ELSE [error |-> "none",
          data |-> ReadData(bytes, header),
          shape |-> <<header.NY, header.NX, header.DP_SZ, header.DP_SZ>>,
          axes |-> Axes(<<header.NY, header.NX, header.DP_SZ, header.DP_SZ>>,
                        <<header.SX, ReciprocalScale(header),
                          ReciprocalScale(header), header.SY>>),
          header |-> WithNote(header, NoteRead(bytes, header))]

file_reader(bytes, endianess) ==
    IF Len(bytes) < HeaderSize THEN ReadFailure(ShortHeader)
    ELSE ReadWith(bytes, RecordValue(SubSeq(bytes, 1, HeaderSize),
                                     HeaderDtype[endianess]))

(***************************************************************************)
(* The inputs.                                                             *)
(***************************************************************************)
CenteringNames == {CalibrationNames[i] : i \in 1..8}

\* a blockfile_header as an earlier read left it in original_metadata: its
\* shape, scale and offset fields are those of the file it was read from
PriorHeader(gap, noteLen) ==
    [n \in FieldNames \cup {"Note"} |->
        CASE n = "ID" -> IMGBLO
          [] n = "MAGIC" -> 258
          [] n = "Data_offset_1" -> HeaderSize + gap
          [] n = "Data_offset_2" -> HeaderSize + gap + 64
          [] n = "UNKNOWN1" -> 131073
          [] n = "DP_SZ" -> 144
          [] n = "DP_rotation" -> 9000
          [] n = "NX" -> 7
          [] n = "NY" -> 9
          [] n = "Scan_rotation" -> 4500
          [] n = "SX" -> Rat(3, 1)
          [] n = "SY" -> Rat(7, 2)
          [] n = "Beam_energy" -> 200000
          [] n = "SDP" -> 250
          [] n = "Camera_length" -> 150
          [] n = "Aquisiton_time" -> Rat(5, 2)
          [] n = "Note" -> [i \in 1..noteLen |-> 64 + i]
          [] n \in CenteringNames -> Rat(3, 2)
          [] OTHER -> Rat(1, 2)]

Metadata ==
    {[original_filename |-> "scan"]}
    \cup {[blockfile_header |-> PriorHeader(gap, noteLen)] :
            gap \in {-1, 0, MaxGap}, noteLen \in 0..MaxNote}
    \cup {[blockfile_header |-> PriorHeader(16, MaxNote)]}

\* the scan steps (x, y) and the scale of the reciprocal axes; with a scale
\* above 100 the SDP field is 0
Calibrations ==
    { [navigation_scale |-> <<Rat(3, 2), Rat(3, 2)>>, signal_scale |-> Rat(1, 1)],
      [navigation_scale |-> <<Rat(3, 2), Rat(5, 2)>>, signal_scale |-> Rat(1, 2)],
      [navigation_scale |-> <<Rat(2, 1), Rat(1, 1)>>, signal_scale |-> Rat(200, 1)] }

SignalOf(nav, shape, cal, md, data) ==
    [navigation_shape |-> nav, signal_shape |-> shape,
     navigation_scale |-> cal.navigation_scale, signal_scale |-> cal.signal_scale,
     original_metadata |-> md, data |-> data]

\* (W, H): the square patterns and two that are not square
SignalShapes == {<<d, d>> : d \in 1..MaxDP} \cup {<<1, MaxDP>>, <<MaxDP, 1>>}

SmallSignals ==
    {SignalOf(nav, shape, cal, md, "ramp") :
        nav \in (1..MaxNav) \X (1..MaxNav), shape \in SignalShapes,
        cal \in Calibrations, md \in Metadata}
    \cup
    {SignalOf(nav, shape, cal, [blockfile_header |-> PriorHeader(0, 0)], "inverse") :
        nav \in (1..MaxNav) \X (1..MaxNav), shape \in SignalShapes,
        cal \in Calibrations}

\* a 256 x 256 scan of one-pixel patterns: NX * NY does not fit 16 bits
LargeSignals ==
    {SignalOf(<<256, 256>>, <<1, 1>>, cal, md, "ramp") :
        cal \in {[navigation_scale |-> <<Rat(3, 2), Rat(3, 2)>>,
                  signal_scale |-> Rat(1, 1)]},
        md \in {[original_filename |-> "scan"],
                [blockfile_header |-> PriorHeader(0, 0)]}}

Signals == SmallSignals \cup LargeSignals

\* what the destination holds before the write
StaleFile == <<7, 7, 7>>

Kwds == {[endianess |-> "<"], [endianess |-> ">"]}

NoResult ==
    [error |-> "none", opened |-> FALSE,
     header |-> ZeroRecord(HeaderDtype["<"]), note |-> <<>>, frames |-> 0]

NoRead == ReadFailure("none")

NoDate == [aware |-> TRUE, days |-> 0, seconds |-> 0, microseconds |-> 0]
NoSerial == [error |-> "none", value |-> Rat(0, 1)]

(***************************************************************************)
(* The write of a signal to a destination, and the read of the destination *)
(***************************************************************************)
Init ==
    /\ pc = "start"
    /\ signal \in Signals
    /\ kwds = [endianess |-> "<"]
    /\ file = StaleFile
    /\ wres = NoResult
    /\ rkwds = "<"
    /\ rres = NoRead
    /\ dt = NoDate
    /\ serial = NoSerial
    /\ back = NoDate
    /\ twin = <<>>
    /\ tres = NoRead

Write ==
    /\ pc = "start"
    /\ \E kw \in Kwds :
        LET r == file_writer(file, signal, kw)
        IN  /\ kwds' = kw
            /\ file' = r.file
            /\ wres' = [error |-> r.error, opened |-> r.opened, header |-> r.header,
                        note |-> r.note, frames |-> r.frames]
    /\ pc' = "written"
    /\ UNCHANGED <<signal, rkwds, rres, dt, serial, back, twin, tres>>

Read ==
    /\ pc = "written"
    /\ \E endianess \in {"<", ">"} :
        /\ rkwds' = endianess
        /\ rres' = file_reader(file, endianess)
    /\ pc' = "read"
    /\ UNCHANGED <<signal, kwds, file, wres, dt, serial, back, twin, tres>>

Next == Write \/ Read

Spec == Init /\ [][Next]_vars

(***************************************************************************)
(* The serial-date conversions applied to a datetime and back.             *)
(***************************************************************************)
DateTimes ==
    [aware : BOOLEAN, days : (-MaxDays)..MaxDays,
     seconds : {0, 1, 43200, 86399},
     microseconds : {0, 1000, 500000, 999000}]

InitDate ==
    /\ pc = "datetime"
    /\ dt \in DateTimes
    /\ serial = NoSerial
    /\ back = NoDate
    /\ twin = <<>>
    /\ tres = NoRead
    /\ signal = SignalOf(<<1, 1>>, <<1, 1>>,
                         [navigation_scale |-> <<Rat(1, 1), Rat(1, 1)>>,
                          signal_scale |-> Rat(1, 1)],
                         [original_filename |-> "scan"], "ramp")
    /\ kwds = [endianess |-> "<"]
    /\ file = <<>>
    /\ wres = NoResult
    /\ rkwds = "<"
    /\ rres = NoRead

ToSerialDate ==
    /\ pc = "datetime"
    /\ serial' = _to_serial_date(dt)
    /\ pc' = "serial"
    /\ UNCHANGED <<signal, kwds, file, wres, rkwds, rres, dt, back, twin, tres>>

FromSerialDate ==
    /\ pc = "serial"
    /\ serial.error = "none"
    /\ back' = _from_serial_date(serial.value)
    /\ pc' = "back"
    /\ UNCHANGED <<signal, kwds, file, wres, rkwds, rres, dt, serial, twin, tres>>

NextDate == ToSerialDate \/ FromSerialDate

SpecDate == InitDate /\ [][NextDate]_vars

(***************************************************************************)
(* The read of a file found on disk: one that a write left, whole or cut   *)
(* short, or with a field of its header record replaced; and the read of   *)
(* its twin, the same file with other frame markers and another virtual    *)
(* bright field.                                                           *)
(***************************************************************************)
\* the bytes with field name of the header record replaced by those of v
Patch(bytes, dtype, name, v) ==
    LET i == FieldIndex[name]
        b == ItemBytes(dtype[i].type, dtype[i].order, v)
    IN  [p \in 1..Len(bytes) |->
            IF p > FieldOffsets[i] /\ p <= FieldOffsets[i] + Len(b)
            THEN b[p - FieldOffsets[i]]
            ELSE bytes[p]]

\* the lengths a file is cut to
CutLengths(f) == {0, HeaderSize - 1, HeaderSize, HeaderSize + 1, Len(f) - 1}

\* the file f, f cut short, f with another ID ("BLOCKS"), with another
\* MAGIC (0x0201), and with Data_offset_1 beyond its end (0x1000)
FilesFrom(f, endianess) ==
    {f}
    \cup {SubSeq(f, 1, n) : n \in CutLengths(f)}
    \cup {Patch(f, HeaderDtype[endianess], "ID", <<66, 76, 79, 67, 75, 83>>),
          Patch(f, HeaderDtype[endianess], "MAGIC", 513),
          Patch(f, HeaderDtype[endianess], "Data_offset_1", 4096)}

\* byte p (from 0) lies in a frame marker, or in the virtual bright field
InMarker(p, header) ==
    /\ p >= header.Data_offset_2
    /\ (p - header.Data_offset_2) % (6 + header.DP_SZ * header.DP_SZ) < 6

InBrightField(p, header) ==
    /\ p >= header.Data_offset_1
    /\ p < header.Data_offset_1 + header.NX * header.NY

\* the file with every marker byte and every bright-field byte set to fill
Scribble(bytes, header, fill) ==
    [p \in 1..Len(bytes) |->
        IF InMarker(p - 1, header) \/ InBrightField(p - 1, header)
        THEN fill ELSE bytes[p]]

\* the twins of a file laid out as its header record, in the byte order
\* endianess, tells; a file shorter than a record is its own twin
Twins(f, endianess) ==
    IF Len(f) < HeaderSize THEN {f}
    ELSE {Scribble(f, RecordValue(SubSeq(f, 1, HeaderSize), HeaderDtype[endianess]),
                   fill) : fill \in {0, 255}}

\* the signals whose write completes: square, from a prior header that
\* leaves room for the record
FileSignals ==
    {SignalOf(nav, shape,
              [navigation_scale |-> <<Rat(3, 2), Rat(3, 2)>>,
               signal_scale |-> Rat(1, 1)],
              [blockfile_header |-> PriorHeader(gap, noteLen)], "ramp") :
        nav \in {<<1, 1>>, <<1, MaxNav>>, <<MaxNav, MaxNav>>},
        shape \in {<<1, 1>>, <<MaxDP, MaxDP>>},
        gap \in {0, MaxGap}, noteLen \in {0, MaxNote}}

WrittenAs(r) ==
    [error |-> r.error, opened |-> r.opened, header |-> r.header,
     note |-> r.note, frames |-> r.frames]

InitFile ==
    /\ pc = "onDisk"
    /\ signal \in FileSignals
    /\ kwds \in Kwds
    /\ \E r \in {file_writer(StaleFile, signal, kwds)} :
        /\ wres = WrittenAs(r)
        /\ file \in FilesFrom(r.file, Endianess(kwds))
    /\ twin \in Twins(file, Endianess(kwds))
    /\ rkwds = "<"
    /\ rres = NoRead
    /\ tres = NoRead
    /\ dt = NoDate
    /\ serial = NoSerial
    /\ back = NoDate

ReadFile ==
    /\ pc = "onDisk"
    /\ \E endianess \in {"<", ">"} :
        /\ rkwds' = endianess
        /\ rres' = file_reader(file, endianess)
    /\ pc' = "fileRead"
    /\ UNCHANGED <<signal, kwds, file, wres, dt, serial, back, twin, tres>>

ReadTwin ==
    /\ pc = "fileRead"
    /\ tres' = file_reader(twin, rkwds)
    /\ pc' = "twinRead"
    /\ UNCHANGED <<signal, kwds, file, wres, rkwds, rres, dt, serial, back, twin>>

NextFile == ReadFile \/ ReadTwin

SpecFile == InitFile /\ [][NextFile]_vars

(***************************************************************************)
(* The properties.                                                         *)
(***************************************************************************)
NX0 == signal.navigation_shape[1]
NY0 == signal.navigation_shape[2]
Square == signal.signal_shape[1] = signal.signal_shape[2]
HasPrior == "blockfile_header" \in DOMAIN signal.original_metadata
Written == pc \in {"written", "read"}
\* the write opened the destination and wrote a header
Emitted == Written /\ wres.opened
\* the header record at the start of the file, as the writer laid it out
FileHeader ==
    RecordValue(SubSeq(file, 1, HeaderSize),
                HeaderDtype[Endianess(kwds)])
\* Data_offset_1 + NX*NY
NaiveOffset2 == wres.header.Data_offset_1 + NX0 * NY0
\* the read that follows a write, with the byte order of the write
ReadBack == pc = "read" /\ rkwds = Endianess(kwds)

\* the note of the prior header, and the room in front of Data_offset_1
Note0 == signal.original_metadata.blockfile_header.Note
Room == signal.original_metadata.blockfile_header.Data_offset_1 - HeaderSize

\* C1 (as claimed): every square cube of unsigned 8-bit values written
\* little-endian reads back equal at every index, with DP_SZ = D (a prior
\* header, if any, leaving room for the record in front of Data_offset_1)
C1_PixelRoundTrip ==
    (pc = "read" /\ Square /\ Endianess(kwds) = "<" /\ rkwds = "<"
       /\ (HasPrior => Room >= 0)) =>
        /\ wres.error = "none"
        /\ rres.error = "none"
        /\ rres.header.DP_SZ = signal.signal_shape[1]
        /\ rres.shape = <<NY0, NX0, signal.signal_shape[2], signal.signal_shape[1]>>
        /\ \A r \in 0..(NY0 - 1), c \in 0..(NX0 - 1),
              i \in 0..(rres.shape[3] - 1), j \in 0..(rres.shape[4] - 1) :
              rres.data[((r * NX0 + c) * rres.shape[3] + i) * rres.shape[4] + j + 1]
                = Pixel(signal, r, c, i, j)

\* C2: the header the write emits has
\* Data_offset_2 = NX*NY + Data_offset_1 + ((NX*NY + Data_offset_1) mod 16),
\* Data_offset_1 being that of the header used
C2_OffsetFormula ==
    Emitted =>
        /\ wres.header.Data_offset_1
             = HeaderUsed(signal, Endianess(kwds)).header.Data_offset_1
        /\ wres.header.Data_offset_2 = NaiveOffset2 + (NaiveOffset2 % 16)
        /\ FileHeader.Data_offset_2 = NaiveOffset2 + (NaiveOffset2 % 16)

\* a header was emitted whose added remainder is neither 0 nor 8
C2_Witness ==
    Emitted /\ NaiveOffset2 % 16 = 4 /\ FileHeader.Data_offset_2 = NaiveOffset2 + 4

\* C3 (as claimed): Data_offset_2 is Data_offset_1 + NX*NY rounded up to the
\* next multiple of 16
C3_AlignedTo16 ==
    Emitted =>
        /\ FileHeader.Data_offset_2 % 16 = 0
        /\ FileHeader.Data_offset_2 - NaiveOffset2 \in 0..15

\* C3 (amended): Data_offset_2 exceeds Data_offset_1 + NX*NY by 0..15 and is
\* congruent to twice that value modulo 16, so it is a multiple of 16 exactly
\* when Data_offset_1 + NX*NY is a multiple of 8
C3_AlignedWhenMultipleOf8 ==
    Emitted =>
        /\ FileHeader.Data_offset_2 - NaiveOffset2 \in 0..15
        /\ FileHeader.Data_offset_2 % 16 = (2 * NaiveOffset2) % 16
        /\ (FileHeader.Data_offset_2 % 16 = 0) <=> (NaiveOffset2 % 8 = 0)

\* a header was emitted whose Data_offset_2 is no multiple of 16
C3_Witness == Emitted /\ NaiveOffset2 % 8 # 0 /\ FileHeader.Data_offset_2 % 16 # 0

\* C4 (as claimed): a write of a cube that is not square fails with
\* NonSquareFrame before the destination is opened, which stays as it was
C4_SquareFrameRejection ==
    (Written /\ ~Square) =>
        /\ wres.error = NonSquareFrame
        /\ ~wres.opened
        /\ file = StaleFile

TooLong == HasPrior /\ Square /\ Room >= 0 /\ Len(Note0) > Room

\* C6: a note longer than the room is written as its first Room characters,
\* the virtual bright field follows at Data_offset_1 with no padding byte,
\* and no error is raised for it
C6_NoteTruncation ==
    (Written /\ TooLong) =>
        /\ wres.opened
        /\ wres.error # NegativeDimensions
        /\ NX0 * NY0 < U16 => wres.error = "none"
        /\ wres.note = SubSeq(Note0, 1, Room)
        /\ SubSeq(file, HeaderSize + 1, HeaderSize + Room) = SubSeq(Note0, 1, Room)
        /\ SubSeq(file, HeaderSize + Room + 1, HeaderSize + Room + NX0 * NY0)
             = VirtualBrightField(signal)

\* a note of three characters was cut to the two that fit
C6_Witness ==
    Written /\ TooLong /\ Room = 2 /\ Len(Note0) = 3 /\ Len(wres.note) = 2

AxisNames == [k \in 1..Len(rres.axes) |-> rres.axes[k].name]
AxisSizes == [k \in 1..Len(rres.axes) |-> rres.axes[k].size]
AxisScales == [k \in 1..Len(rres.axes) |-> rres.axes[k].scale]
AxisUnits == [k \in 1..Len(rres.axes) |-> rres.axes[k].units]
AxisOffsets == [k \in 1..Len(rres.axes) |-> rres.axes[k].offset]
\* SDP_physical
Reciprocal ==
    IF rres.header.SDP # 0 THEN Rat(100, rres.header.SDP) ELSE Undefined
ReadDone == pc = "read" /\ rres.error = "none"

\* C7 (as claimed): the four axes come in the order x, dy, dx, y
C7_AxesXFirst ==
    ReadDone =>
        /\ AxisNames = <<"x", "dy", "dx", "y">>
        /\ AxisSizes = <<rres.header.NX, rres.header.DP_SZ,
                         rres.header.DP_SZ, rres.header.NY>>
        /\ AxisScales = <<rres.header.SX, Reciprocal, Reciprocal, rres.header.SY>>
        /\ AxisUnits = <<"nm", "cm", "cm", "nm">>
        /\ AxisOffsets = <<Rat(0, 1), Rat(0, 1), Rat(0, 1), Rat(0, 1)>>

\* C7 (amended): the four axes come in the order y, x, dy, dx, with
\* (NY, SY, nm), (NX, SX, nm), (DP_SZ, SDP_physical, cm) twice, offset 0,
\* SDP_physical being unset when SDP is 0; SX = SY = 1.5 and SDP = 100 give
\* the scales [1.5, 1.5, 1.0, 1.0] and the units [nm, nm, cm, cm]
C7_AxesYFirst ==
    ReadDone =>
        /\ AxisNames = <<"y", "x", "dy", "dx">>
        /\ AxisSizes = <<rres.header.NY, rres.header.NX,
                         rres.header.DP_SZ, rres.header.DP_SZ>>
        /\ AxisScales = <<rres.header.SY, rres.header.SX, Reciprocal, Reciprocal>>
        /\ AxisUnits = <<"nm", "nm", "cm", "cm">>
        /\ AxisOffsets = <<Rat(0, 1), Rat(0, 1), Rat(0, 1), Rat(0, 1)>>
        /\ (rres.header.SX = Rat(3, 2) /\ rres.header.SY = Rat(3, 2)
              /\ rres.header.SDP = 100)
             => AxisScales = <<Rat(3, 2), Rat(3, 2), Rat(1, 1), Rat(1, 1)>>

\* a file with SX = SY = 1.5 and SDP = 100 was read
C7_Witness ==
    /\ ReadDone
    /\ rres.header.SX = Rat(3, 2) /\ rres.header.SY = Rat(3, 2)
    /\ rres.header.SDP = 100
    /\ AxisNames = <<"y", "x", "dy", "dx">>

\* C8 (as claimed): the emitted header has SX = a and SY = b for the scan
\* steps a of x and b of y, and a read reports a on x and b on y
C8_PerAxisScanStep ==
    /\ Emitted =>
        /\ FileHeader.SX = signal.navigation_scale[1]
        /\ FileHeader.SY = signal.navigation_scale[2]
    /\ (ReadBack /\ rres.error = "none") =>
        \A k \in 1..4 :
            /\ rres.axes[k].name = "x"
                 => rres.axes[k].scale = signal.navigation_scale[1]
            /\ rres.axes[k].name = "y"
                 => rres.axes[k].scale = signal.navigation_scale[2]

\* C9 (as claimed): _from_serial_date(_to_serial_date(t)) differs from t by
\* less than one millisecond
WithinMillisecond(a, b) ==
    LET secs == (a.days - b.days) * SecondsPerDay + a.seconds - b.seconds
    IN  /\ Abs(secs) <= 1
        /\ Abs(secs * 1000000 + a.microseconds - b.microseconds) < 1000

C9_SerialDateRoundTrip == pc = "back" => WithinMillisecond(back, dt)

PassThrough ==
    FieldNames \ {"NX", "NY", "DP_SZ", "SX", "SY", "SDP", "Data_offset_2"}

\* C10: with a prior header h, every field of the emitted header other than
\* NX, NY, DP_SZ, SX, SY, SDP and Data_offset_2 has its value in h, and the
\* read of the written file returns these values
C10_PassThrough ==
    /\ (Emitted /\ HasPrior) =>
        \A n \in PassThrough :
            /\ wres.header[n] = signal.original_metadata.blockfile_header[n]
            /\ FileHeader[n] = signal.original_metadata.blockfile_header[n]
    /\ (ReadBack /\ HasPrior /\ wres.opened /\ wres.error = "none") =>
        /\ rres.error = "none"
        /\ \A n \in PassThrough :
             rres.header[n] = signal.original_metadata.blockfile_header[n]

\* a file written from a prior header was read back
C10_Witness ==
    /\ ReadBack /\ HasPrior /\ wres.error = "none" /\ rres.error = "none"
    /\ rres.header.UNKNOWN1 = 131073
    /\ rres.header.Centering_N0 = Rat(3, 2)

\* the bytes of field i of the record at the start of the file
FieldOnDisk(i) ==
    SubSeq(file, FieldOffsets[i] + 1,
           FieldOffsets[i] + ItemSize(HeaderDtype["<"][i].type))

\* field i is laid out in the byte order the write was asked for
InSelectedOrder(i) ==
    FieldOnDisk(i)
      = ItemBytes(HeaderDtype["<"][i].type, Endianess(kwds),
                  wres.header[HeaderDtype["<"][i].name])

\* a big-endian write that completed, read back big-endian
BigEndianRoundTrip ==
    (ReadBack /\ Endianess(kwds) = ">" /\ wres.opened /\ wres.error = "none") =>
        /\ rres.error = "none"
        /\ \A n \in FieldNames : rres.header[n] = wres.header[n]

\* C13 (as claimed): every field of the emitted record, Centering_N0..N7 and
\* Distortion_N00..N13 included, is laid out in the selected byte order, the
\* ID being the same bytes under both; a file written big-endian and read
\* big-endian returns the header values written
C13_SelectedByteOrder ==
    /\ Emitted =>
        /\ \A i \in 1..Len(HeaderDtype["<"]) : InSelectedOrder(i)
        /\ FieldOnDisk(FieldIndex["ID"]) = IMGBLO
    /\ BigEndianRoundTrip

\* the fields the default header sets
DefaultFields == {"ID", "MAGIC", "Data_offset_1", "UNKNOWN1", "Aquisiton_time"}

\* C14 (as claimed): get_default_header returns, without raising, a header
\* with ID "IMGBLO", MAGIC 0x0102, Data_offset_1 0x1000, UNKNOWN1 131141,
\* Aquisiton_time the serial date of now and every other field zero, and the
\* write of a square signal without a prior header proceeds with these values
C14_DefaultHeader ==
    (Written /\ ~HasPrior) =>
        LET h == get_default_header(Endianess(kwds))
        IN  /\ h.error = "none"
            /\ h.header.ID = IMGBLO
            /\ h.header.MAGIC = 258
            /\ h.header.Data_offset_1 = 4096
            /\ h.header.UNKNOWN1 = 131141
            /\ h.header.Aquisiton_time
                 = Rat(utcnow.days * SecondsPerDay + utcnow.seconds, SecondsPerDay)
            /\ \A n \in FieldNames \ DefaultFields :
                 h.header[n] = ZeroRecord(HeaderDtype["<"])[n]
            /\ Square =>
                 /\ wres.opened
                 /\ wres.error # "TypeError"
                 /\ wres.header.Data_offset_1 = 4096
                 /\ wres.header.UNKNOWN1 = 131141

\* the write ran to its end
Completed == Emitted /\ wres.error = "none"
\* the length of a frame with its marker, and the marker of the k-th frame
\* (k from 1) as the file holds it
SlabSize == 6 + wres.header.DP_SZ * wres.header.DP_SZ
MarkerOnDisk(k) ==
    SubSeq(file, wres.header.Data_offset_2 + (k - 1) * SlabSize + 1,
           wres.header.Data_offset_2 + (k - 1) * SlabSize + 6)
\* the magic 0x55AA and the serial id, in the byte order of the write
MarkerOf(id) ==
    ItemBytes("u2", Endianess(kwds), 21930) \o ItemBytes("u4", Endianess(kwds), id)

\* C15 (as claimed): the k-th frame of a written file (k = 1 .. NX*NY) is
\* preceded by the magic 0x55AA and the serial index k: the first frame
\* carries 1, the last NX*NY
C15_MarkersFromOne ==
    Completed => \A k \in 1..(NX0 * NY0) : MarkerOnDisk(k) = MarkerOf(k)

\* C16 (as claimed): a write whose iterator yields exactly NX*NY frames never
\* raises FrameCountExceeded and writes all NX*NY frames, also when NX*NY
\* does not fit 16 bits
C16_NoSpuriousOverflow ==
    (Emitted /\ wres.error # NegativeDimensions) =>
        /\ wres.error # FrameCountExceeded
        /\ wres.frames = NX0 * NY0
        /\ Len(file) = wres.header.Data_offset_2 + NX0 * NY0 * SlabSize

\* the end of the note in the file
NoteEnd == HeaderSize + Len(wres.note)
\* the end of the virtual bright field in the file
BrightFieldEnd == wres.header.Data_offset_1 + NX0 * NY0

\* C17: after a completed write (Data_offset_1 at least the header size) the
\* header record occupies [0, header size), the note follows it, zeros fill
\* the file up to Data_offset_1, the virtual bright field of NX*NY bytes
\* occupies [Data_offset_1, Data_offset_1 + NX*NY), zeros fill the file up to
\* Data_offset_2, the first frame marker begins at Data_offset_2 and the file
\* is Data_offset_2 + NX*NY*(6 + DP_SZ*DP_SZ) bytes long
C17_FileLayout ==
    (Completed /\ wres.header.Data_offset_1 >= HeaderSize) =>
        /\ SubSeq(file, 1, HeaderSize)
             = RecordBytes(wres.header, HeaderDtype[Endianess(kwds)], 1)
        /\ SubSeq(file, HeaderSize + 1, NoteEnd) = wres.note
        /\ NoteEnd <= wres.header.Data_offset_1
        /\ \A p \in (NoteEnd + 1)..wres.header.Data_offset_1 : file[p] = 0
        /\ SubSeq(file, wres.header.Data_offset_1 + 1, BrightFieldEnd)
             = VirtualBrightField(signal)
        /\ Len(VirtualBrightField(signal)) = wres.header.NX * wres.header.NY
        /\ BrightFieldEnd <= wres.header.Data_offset_2
        /\ \A p \in (BrightFieldEnd + 1)..wres.header.Data_offset_2 : file[p] = 0
        /\ SubSeq(MarkerOnDisk(1), 1, 2) = ItemBytes("u2", Endianess(kwds), 21930)
        /\ Len(file)
             = wres.header.Data_offset_2 + wres.header.NX * wres.header.NY * SlabSize

\* a write completed that left a note, zeros after it, and zeros after the
\* bright field of a 2 x 2 scan
C17_Witness ==
    /\ Completed
    /\ Len(wres.note) > 0
    /\ NoteEnd < wres.header.Data_offset_1
    /\ NX0 * NY0 = 4
    /\ BrightFieldEnd < wres.header.Data_offset_2

\* C18 (as claimed): in every written file Data_offset_2 is at least
\* Data_offset_1 plus the length of the note written
C18_Offset2CoversNote ==
    Completed =>
        FileHeader.Data_offset_2 >= FileHeader.Data_offset_1 + Len(wres.note)

\* C18 (amended): the note written ends at or before Data_offset_1, the
\* bright field ends at or before Data_offset_2, and Data_offset_2 is at
\* least Data_offset_1 plus the length of the note exactly when that length
\* is at most NX*NY + ((Data_offset_1 + NX*NY) mod 16)
C18_NoteBeforeOffset1 ==
    Completed =>
        /\ HeaderSize + Len(wres.note) <= FileHeader.Data_offset_1
        /\ FileHeader.Data_offset_1 + NX0 * NY0 <= FileHeader.Data_offset_2
        /\ (FileHeader.Data_offset_2 >= FileHeader.Data_offset_1 + Len(wres.note))
             <=> (Len(wres.note) <= NX0 * NY0 + (NaiveOffset2 % 16))

\* a write completed whose note is longer than the distance between the two
\* offsets
C18_Witness ==
    /\ Completed
    /\ NX0 * NY0 = 1
    /\ Len(wres.note) >= 3
    /\ FileHeader.Data_offset_2 < FileHeader.Data_offset_1 + Len(wres.note)

\* the axes dy and dx of the read
ReciprocalAxes == {k \in 1..Len(rres.axes) : rres.axes[k].name \in {"dy", "dx"}}

\* C20: the read of a file whose SDP field is 0 does not fail and gives both
\* reciprocal axes, dy and dx, the unset sentinel as scale; with SDP # 0 the
\* scale of both is 100 / SDP
C20_AbsentSDP ==
    /\ (ReadBack /\ Completed) => rres.error = "none"
    /\ ReadDone =>
        /\ Cardinality(ReciprocalAxes) = 2
        /\ \A k \in ReciprocalAxes :
             /\ rres.header.SDP = 0 => rres.axes[k].scale = Undefined
             /\ rres.header.SDP # 0
                  => rres.axes[k].scale = Rat(100, rres.header.SDP)

\* a file whose SDP field is 0 was read without error
C20_Witness ==
    /\ ReadBack /\ ReadDone
    /\ FileHeader.SDP = 0
    /\ rres.header.SDP = 0
    /\ \A k \in ReciprocalAxes : rres.axes[k].scale = Undefined

(***************************************************************************)
(* The properties of the read of a file found on disk.                     *)
(***************************************************************************)
FileWasRead == pc \in {"fileRead", "twinRead"}
\* the header record at the start of the file, in the byte order of the read
HeaderOnDisk ==
    RecordValue(SubSeq(file, 1, HeaderSize), HeaderDtype[rkwds])
Unidentified ==
    IF Len(file) < HeaderSize THEN TRUE
    ELSE HeaderOnDisk.ID # IMGBLO \/ HeaderOnDisk.MAGIC # 258

\* C11 (as claimed): the read of a file whose first 6 bytes are not "IMGBLO",
\* whose MAGIC is not 0x0102, or that is shorter than one header record,
\* fails and returns no cube, no axes and no header
C11_FormatIdentification ==
    (FileWasRead /\ Unidentified) =>
        /\ rres.error # "none"
        /\ rres.data = <<>>
        /\ rres.axes = <<>>

\* the file holds at least a header record and fewer bytes than the
\* Data_offset_1 of that record
EndsBeforeOffset1 ==
    IF Len(file) < HeaderSize THEN FALSE
    ELSE \/ IsLarge(HeaderOnDisk.Data_offset_1)
         \/ Len(file) < HeaderOnDisk.Data_offset_1

\* C12 (as claimed): the read of a file that holds fewer than Data_offset_1
\* bytes fails instead of returning a shorter note
C12_TruncatedNote ==
    (FileWasRead /\ EndsBeforeOffset1) =>
        /\ rres.error # "none"
        /\ rres.header.Note = <<>>

\* the file of the write, whole, read in the byte order it was written in
IntactRead ==
    /\ pc = "twinRead"
    /\ rkwds = Endianess(kwds)
    /\ Len(file) = wres.header.Data_offset_2 + NX0 * NY0 * SlabSize
    /\ HeaderOnDisk = wres.header

====
